---- MODULE Spec2Model ----
(***************************************************************************)
(* Model of package ast (pkg/ast): the Expression tree, its JSON encoding  *)
(* (the JSON methods) and its decoding (NewExpressionFromJSON and the      *)
(* eleven per-variant constructors).                                       *)
(*                                                                         *)
(* Text is a sequence of one-character strings, so that strconv's          *)
(* formatting and parsing are computed digit by digit.  A jsoniter.Any is  *)
(* a record tagged by its kind ("k"); a JSON number keeps its raw text, as *)
(* jsoniter's lazy number does.  Go pointers, interface values and slices  *)
(* keep the nil / non-nil distinction.                                     *)
(***************************************************************************)
EXTENDS Integers, Sequences, FiniteSets

VARIABLES phase, e, json, call, result

vars == <<phase, e, json, call, result>>

-----------------------------------------------------------------------------
(* Type constants (ast.go). *)

TypeModule == 1
TypeNil == 2
TypeBoolean == 3
TypeInt32 == 4
TypeFloat64 == 5
TypeString == 6
TypeID == 7
TypeDefinition == 8
TypeLambda == 9
TypeCall == 10
TypeAnonymousCall == 11

-----------------------------------------------------------------------------
(* Bounds of the model. *)

\* longest sequence (definitions, parameters, arguments) in a generated input
MaxSeq == 2

-----------------------------------------------------------------------------
(* Text and strconv. *)

DigitChars == <<"0", "1", "2", "3", "4", "5", "6", "7", "8", "9">>

IsDigit(c) == \E d \in 1..10 : DigitChars[d] = c

DigitVal(c) == (CHOOSE d \in 1..10 : DigitChars[d] = c) - 1

Tail2(s) == SubSeq(s, 2, Len(s))

MinInt32 == -2147483647 - 1
MaxInt32 == 2147483647

\* digits of -n, for n <= 0 (formatBits works on the magnitude; the magnitude
\* of MinInt32 is not an int32, so the model divides the negative number)
RECURSIVE FormatMagnitude(_)
FormatMagnitude(n) ==
    LET d == (10 - (n % 10)) % 10
        rest == (n + d) \div 10
    IN  IF rest = 0 THEN <<DigitChars[d + 1]>>
        ELSE FormatMagnitude(rest) \o <<DigitChars[d + 1]>>

\* strconv.FormatInt(int64(v), 10)
FormatInt(v) ==
    IF v < 0 THEN <<"-">> \o FormatMagnitude(v) ELSE FormatMagnitude(-v)

\* errors
NoErr == [err |-> "nil"]
ErrInvalidJSON == [err |-> "ErrInvalidJSON"]
PanicNotImplemented == [err |-> "panic: not implemented"]
NumError(fn, num, kind) == [err |-> "NumError", Func |-> fn, Num |-> num, Err |-> kind]

\* strconv.ParseUint(s, 10, 32), the magnitude kept negated: acc = -n while
\* n <= 2^31; "big" stands for 2^31 < n <= 2^32-1 (no error from ParseUint,
\* out of range for ParseInt); st is "ok", "syntax" or "range".
RECURSIVE ParseUintLoop(_, _, _)
ParseUintLoop(s, acc, big) ==
    IF s = <<>> THEN [st |-> "ok", acc |-> acc, big |-> big]
    ELSE IF ~IsDigit(s[1]) THEN [st |-> "syntax", acc |-> 0, big |-> FALSE]
    ELSE LET d == DigitVal(s[1]) IN
         IF big THEN [st |-> "range", acc |-> 0, big |-> FALSE]
         ELSE IF acc < -429496729 \/ (acc = -429496729 /\ d > 5)
              THEN [st |-> "range", acc |-> 0, big |-> FALSE]
         ELSE IF acc < -214748364 \/ (acc = -214748364 /\ d > 8)
              THEN ParseUintLoop(Tail2(s), 0, TRUE)
         ELSE ParseUintLoop(Tail2(s), acc * 10 - d, FALSE)

ParseUint(s) ==
    IF s = <<>> THEN [st |-> "syntax", acc |-> 0, big |-> FALSE]
    ELSE ParseUintLoop(s, 0, FALSE)

\* mutant of ParseInt: parsed at 64 bits and cut to 32 by the conversion, so a
\* value one past either end of the range wraps around without an error
ParseIntWrapping(s) ==
    IF s = <<>> THEN [v |-> 0, err |-> NumError("ParseInt", s, "ErrSyntax")]
    ELSE LET neg == s[1] = "-"
             body == IF s[1] = "+" \/ s[1] = "-" THEN Tail2(s) ELSE s
             un == ParseUint(body)
         IN  IF un.st = "syntax"
             THEN [v |-> 0, err |-> NumError("ParseInt", s, "ErrSyntax")]
             ELSE IF un.st = "range" \/ un.big
             THEN [v |-> IF neg THEN MaxInt32 ELSE MinInt32, err |-> NoErr]
             ELSE IF ~neg /\ un.acc = MinInt32
             THEN [v |-> MinInt32, err |-> NoErr]
             ELSE [v |-> IF neg THEN un.acc ELSE -un.acc, err |-> NoErr]

\* strconv.ParseInt(s, 10, 32): [v, err]
ParseInt(s) ==
    IF s = <<>> THEN [v |-> 0, err |-> NumError("ParseInt", s, "ErrSyntax")]
    ELSE LET neg == s[1] = "-"
             body == IF s[1] = "+" \/ s[1] = "-" THEN Tail2(s) ELSE s
             un == ParseUint(body)
         IN  IF un.st = "syntax"
             THEN [v |-> 0, err |-> NumError("ParseInt", s, "ErrSyntax")]
             ELSE IF un.st = "range" \/ un.big
             THEN [v |-> IF neg THEN MinInt32 ELSE MaxInt32,
                   err |-> NumError("ParseInt", s, "ErrRange")]
             ELSE IF ~neg /\ un.acc = MinInt32
             THEN [v |-> MaxInt32, err |-> NumError("ParseInt", s, "ErrRange")]
             ELSE [v |-> IF neg THEN un.acc ELSE -un.acc, err |-> NoErr]

\* A float64 is modelled by its shortest decimal form: the digits of the
\* mantissa (no leading and no trailing zero; none at all for zero), the
\* decimal exponent of its last digit, and the sign.  For decimals of at most
\* 15 significant digits float64 and this form are in one-to-one correspondence.
RECURSIVE StripLeadingZeros(_)
StripLeadingZeros(ds) ==
    IF ds # <<>> /\ ds[1] = "0" THEN StripLeadingZeros(Tail2(ds)) ELSE ds

RECURSIVE Normalize(_)
Normalize(f) ==
    IF f.digits = <<>> THEN [neg |-> f.neg, digits |-> <<>>, exp |-> 0]
    ELSE IF f.digits[Len(f.digits)] = "0"
         THEN Normalize([neg |-> f.neg,
                         digits |-> SubSeq(f.digits, 1, Len(f.digits) - 1),
                         exp |-> f.exp + 1])
         ELSE f

RECURSIVE Zeros(_)
Zeros(n) == IF n <= 0 THEN <<>> ELSE <<"0">> \o Zeros(n - 1)

\* strconv.FormatFloat(f, 'f', -1, 64)
FormatFloat(f) ==
    LET nd == Len(f.digits)
        sign == IF f.neg THEN <<"-">> ELSE <<>>
    IN  IF nd = 0 THEN sign \o <<"0">>
        ELSE IF f.exp >= 0 THEN sign \o f.digits \o Zeros(f.exp)
        ELSE IF nd > -f.exp
             THEN sign \o SubSeq(f.digits, 1, nd + f.exp) \o <<".">>
                       \o SubSeq(f.digits, nd + f.exp + 1, nd)
             ELSE sign \o <<"0", ".">> \o Zeros(-f.exp - nd) \o f.digits

\* the decimal mantissa scan of strconv's readFloat: digits with at most one
\* point; [ok, digits, frac]
RECURSIVE ReadFloat(_, _, _, _)
ReadFloat(s, digits, frac, dot) ==
    IF s = <<>> THEN [ok |-> digits # <<>>, digits |-> digits, frac |-> frac]
    ELSE IF s[1] = "." /\ ~dot THEN ReadFloat(Tail2(s), digits, frac, TRUE)
    ELSE IF IsDigit(s[1])
         THEN ReadFloat(Tail2(s), Append(digits, s[1]),
                        IF dot THEN frac + 1 ELSE frac, dot)
         ELSE [ok |-> FALSE, digits |-> <<>>, frac |-> 0]

\* strconv.ParseFloat(s, 64) on texts of digits, sign and point: [v, err]
ParseFloat(s) ==
    LET neg == s # <<>> /\ s[1] = "-"
        body == IF s # <<>> /\ (s[1] = "+" \/ s[1] = "-") THEN Tail2(s) ELSE s
        r == ReadFloat(body, <<>>, 0, FALSE)
    IN  IF r.ok
        THEN [v |-> Normalize([neg |-> neg, digits |-> StripLeadingZeros(r.digits),
                               exp |-> -r.frac]),
              err |-> NoErr]
        ELSE [v |-> [neg |-> FALSE, digits |-> <<>>, exp |-> 0],
              err |-> NumError("ParseFloat", s, "ErrSyntax")]

-----------------------------------------------------------------------------
(* jsoniter.Any: the structured input. *)

JInvalid == [k |-> "invalid"]
JNull == [k |-> "null"]
JBool(b) == [k |-> "bool", b |-> b]
JNum(raw) == [k |-> "num", raw |-> raw]
JStr(s) == [k |-> "str", s |-> s]
JArr(a) == [k |-> "arr", a |-> a]
JObj(o) == [k |-> "obj", o |-> o]

\* json.Get(key): the field of an object; the invalid Any for an absent field
\* or a receiver that is no object
Get(j, key) ==
    IF j.k = "obj" /\ key \in DOMAIN j.o THEN j.o[key] ELSE JInvalid

\* the leading unsigned decimal of a text (0 when it has none); digits that
\* would pass the model's integers are dropped: no tag has more than 2
RECURSIVE LeadingUint(_, _)
LeadingUint(s, n) ==
    IF s = <<>> \/ ~IsDigit(s[1]) \/ n >= 1000 THEN n
    ELSE LeadingUint(Tail2(s), n * 10 + DigitVal(s[1]))

\* Any.ToUint(): jsoniter's coercion of any value to an unsigned integer
ToUint(j) ==
    CASE j.k = "num" -> LeadingUint(j.raw, 0)
      [] j.k = "str" -> IF j.s # <<>> /\ j.s[1] = "+" THEN LeadingUint(Tail2(j.s), 0)
                        ELSE LeadingUint(j.s, 0)
      [] j.k = "bool" -> IF j.b THEN 1 ELSE 0
      [] j.k = "arr" -> IF Len(j.a) > 0 THEN 1 ELSE 0
      [] OTHER -> 0

\* Any.ToString(): the text of a string, the raw text of a number or of a
\* container (only empty containers occur in scalar positions of the inputs)
ToString(j) ==
    CASE j.k = "str" -> j.s
      [] j.k = "num" -> j.raw
      [] j.k = "bool" -> IF j.b THEN <<"t", "r", "u", "e">> ELSE <<"f", "a", "l", "s", "e">>
      [] j.k = "arr" /\ j.a = <<>> -> <<"[", "]">>
      [] j.k = "obj" /\ DOMAIN j.o = {} -> <<"{", "}">>
      [] j.k \in {"null", "invalid"} -> <<>>

\* Any.ToBool()
ToBool(j) ==
    CASE j.k = "bool" -> j.b
      [] j.k = "num" -> ParseFloat(j.raw).v.digits # <<>>
      [] j.k = "str" -> j.s # <<"0">> /\ \E i \in 1..Len(j.s) : j.s[i] # " "
      [] j.k = "arr" -> Len(j.a) > 0
      [] j.k = "obj" -> TRUE
      [] OTHER -> FALSE

\* slices: nil or not, and the elements
NilSlice == [null |-> TRUE, elems |-> <<>>]
MakeSlice(elems) == [null |-> FALSE, elems |-> elems]

\* Any.ToVal(&[]jsoniter.Any) on a declared (nil) slice: an array fills it; an
\* object is no array, the decoder's error is dropped and the slice stays nil;
\* every other kind of Any (a scalar, null, the invalid Any of an absent field)
\* has only baseAny's ToVal, which panics
ToVal(j) ==
    CASE j.k = "arr" -> [panicked |-> FALSE, slice |-> MakeSlice(j.a)]
      [] j.k = "obj" -> [panicked |-> FALSE, slice |-> NilSlice]
      [] OTHER -> [panicked |-> TRUE, slice |-> NilSlice]

-----------------------------------------------------------------------------
(* The Expression model (ast.go). *)

\* a nil pointer; a non-nil pointer is modelled by the node it points to
NilPtr == [nil |-> TRUE]

Module(name, definitions) ==
    [node |-> "Module", Name |-> name, Definitions |-> definitions]
Nil == [node |-> "Nil"]
Boolean(value) == [node |-> "Boolean", Value |-> value]
Int32(value) == [node |-> "Int32", Value |-> value]
Float64(value) == [node |-> "Float64", Value |-> value]
String(value) == [node |-> "String", Value |-> value]
ID(value) == [node |-> "ID", Value |-> value]
Definition(id, expression) ==
    [node |-> "Definition", ID |-> id, Expression |-> expression]
Lambda(parameters, expression) ==
    [node |-> "Lambda", Parameters |-> parameters, Expression |-> expression]
Call(id, arguments) == [node |-> "Call", ID |-> id, Arguments |-> arguments]
AnonymousCall(lambda, arguments) ==
    [node |-> "AnonymousCall", Lambda |-> lambda, Arguments |-> arguments]

\* an Expression is an interface value: a dynamic type and a pointer.  The nil
\* interface has no dynamic type; an interface holding a nil pointer is not nil.
NilIface == [dyn |-> "nil", ptr |-> NilPtr]
Iface(dyn, ptr) == [dyn |-> dyn, ptr |-> ptr]

\* a non-nil pointer as an Expression
Expr(n) == Iface(n.node, n)

\* the Type methods: the tag of the dynamic type (the receiver is not read)
Type(x) ==
    CASE x.dyn = "Module" -> TypeModule
      [] x.dyn = "Nil" -> TypeNil
      [] x.dyn = "Boolean" -> TypeBoolean
      [] x.dyn = "Int32" -> TypeInt32
      [] x.dyn = "Float64" -> TypeFloat64
      [] x.dyn = "String" -> TypeString
      [] x.dyn = "ID" -> TypeID
      [] x.dyn = "Definition" -> TypeDefinition
      [] x.dyn = "Lambda" -> TypeLambda
      [] x.dyn = "Call" -> TypeCall
      [] x.dyn = "AnonymousCall" -> TypeAnonymousCall

-----------------------------------------------------------------------------
(* Encoding: the JSON methods, followed by jsoniter.Marshal and jsoniter.Get *)
(* (an int becomes a JSON number, a Go string a JSON string, a slice made    *)
(* with make an array, empty or not).                                        *)

\* the "type" entry: an untyped integer constant in the map
TypeEntry(t) == JNum(FormatInt(t))

RECURSIVE JSON(_)

NilJSON(n) == JObj([type |-> TypeEntry(TypeNil)])

BooleanJSON(b) == JObj([type |-> TypeEntry(TypeBoolean), value |-> JBool(b.Value)])

Int32JSON(i) ==
    JObj([type |-> TypeEntry(TypeInt32), value |-> JStr(FormatInt(i.Value))])

Float64JSON(f) ==
    JObj([type |-> TypeEntry(TypeFloat64), value |-> JStr(FormatFloat(f.Value))])

StringJSON(s) == JObj([type |-> TypeEntry(TypeString), value |-> JStr(s.Value)])

IDJSON(i) == JObj([type |-> TypeEntry(TypeID), value |-> JStr(i.Value)])

DefinitionJSON(d) ==
    JObj([type |-> TypeEntry(TypeDefinition),
          id |-> IDJSON(d.ID),
          expression |-> JSON(d.Expression)])

ModuleJSON(m) ==
    LET definitions == [i \in 1..Len(m.Definitions.elems) |->
                            DefinitionJSON(m.Definitions.elems[i])]
    IN  JObj([type |-> TypeEntry(TypeModule), definitions |-> JArr(definitions)])

LambdaJSON(l) ==
    LET parameters == [i \in 1..Len(l.Parameters.elems) |->
                            IDJSON(l.Parameters.elems[i])]
    IN  JObj([type |-> TypeEntry(TypeLambda),
              parameters |-> JArr(parameters),
              expression |-> JSON(l.Expression)])

CallJSON(c) ==
    LET arguments == [i \in 1..Len(c.Arguments.elems) |-> JSON(c.Arguments.elems[i])]
    IN  JObj([type |-> TypeEntry(TypeCall),
              id |-> IDJSON(c.ID),
              arguments |-> JArr(arguments)])

AnonymousCallJSON(c) ==
    LET arguments == [i \in 1..Len(c.Arguments.elems) |-> JSON(c.Arguments.elems[i])]
    IN  JObj([type |-> TypeEntry(TypeAnonymousCall),
              lambda |-> LambdaJSON(c.Lambda),
              arguments |-> JArr(arguments)])

\* Expression.JSON(): dispatch on the dynamic type
JSON(x) ==
    CASE x.dyn = "Module" -> ModuleJSON(x.ptr)
      [] x.dyn = "Nil" -> NilJSON(x.ptr)
      [] x.dyn = "Boolean" -> BooleanJSON(x.ptr)
      [] x.dyn = "Int32" -> Int32JSON(x.ptr)
      [] x.dyn = "Float64" -> Float64JSON(x.ptr)
      [] x.dyn = "String" -> StringJSON(x.ptr)
      [] x.dyn = "ID" -> IDJSON(x.ptr)
      [] x.dyn = "Definition" -> DefinitionJSON(x.ptr)
      [] x.dyn = "Lambda" -> LambdaJSON(x.ptr)
      [] x.dyn = "Call" -> CallJSON(x.ptr)
      [] x.dyn = "AnonymousCall" -> AnonymousCallJSON(x.ptr)

-----------------------------------------------------------------------------
(* Decoding.  A call's outcome is [val, err, panicked, log]: the value and   *)
(* the error it returns, whether it panicked instead of returning, and the   *)
(* constructors entered during the call, in order, each with the path from   *)
(* the call's input to the node it was given.                                *)

Entry(fn) == <<[fn |-> fn, path |-> <<>>]>>

IndexName(i) == DigitChars[i + 1]

Under(prefix, log) ==
    [i \in 1..Len(log) |-> [fn |-> log[i].fn, path |-> prefix \o log[i].path]]

Ok(val, log) == [val |-> val, err |-> NoErr, panicked |-> FALSE, log |-> log]

\* return nil, err
Fail(err, log) == [val |-> NilPtr, err |-> err, panicked |-> FALSE, log |-> log]

Panic(log) ==
    [val |-> NilPtr, err |-> PanicNotImplemented, panicked |-> TRUE, log |-> log]

\* err != nil after a call (a panic unwinds through the caller the same way)
Failed(r) == r.err # NoErr

\* if err != nil { return nil, err }
Propagate(r, log) ==
    [val |-> NilPtr, err |-> r.err, panicked |-> r.panicked, log |-> log]

\* return NewXFromJSON(json) in a function whose result is Expression: the
\* pointer, nil or not, is converted to an interface value of its type
AsExpression(dyn, r) ==
    [val |-> Iface(dyn, r.val), err |-> r.err, panicked |-> r.panicked,
     log |-> Entry("NewExpressionFromJSON") \o r.log]

RECURSIVE NewExpressionFromJSON(_)
RECURSIVE NewDefinitionFromJSON(_)
RECURSIVE NewLambdaFromJSON(_)
RECURSIVE NewCallFromJSON(_)
RECURSIVE NewAnonymousCallFromJSON(_)

NewNilFromJSON(j) ==
    IF ToUint(Get(j, "type")) # TypeNil
    THEN Fail(ErrInvalidJSON, Entry("NewNilFromJSON"))
    ELSE Ok(Nil, Entry("NewNilFromJSON"))

NewBooleanFromJSON(j) ==
    IF ToUint(Get(j, "type")) # TypeBoolean
    THEN Fail(ErrInvalidJSON, Entry("NewBooleanFromJSON"))
    ELSE Ok(Boolean(ToBool(Get(j, "value"))), Entry("NewBooleanFromJSON"))

\* mutant of NewInt32FromJSON: the value is parsed before the tag is checked
NewInt32FromJSONParseFirst(j) ==
    LET p == ParseInt(ToString(Get(j, "value")))
    IN  IF p.err # NoErr THEN Fail(p.err, Entry("NewInt32FromJSON"))
        ELSE IF ToUint(Get(j, "type")) # TypeInt32
        THEN Fail(ErrInvalidJSON, Entry("NewInt32FromJSON"))
        ELSE Ok(Int32(p.v), Entry("NewInt32FromJSON"))

NewInt32FromJSON(j) ==
    IF ToUint(Get(j, "type")) # TypeInt32
    THEN Fail(ErrInvalidJSON, Entry("NewInt32FromJSON"))
    ELSE LET p == ParseInt(ToString(Get(j, "value")))
         IN  IF p.err # NoErr THEN Fail(p.err, Entry("NewInt32FromJSON"))
             ELSE Ok(Int32(p.v), Entry("NewInt32FromJSON"))

NewFloat64FromJSON(j) ==
    IF ToUint(Get(j, "type")) # TypeFloat64
    THEN Fail(ErrInvalidJSON, Entry("NewFloat64FromJSON"))
    ELSE LET p == ParseFloat(ToString(Get(j, "value")))
         IN  IF p.err # NoErr THEN Fail(p.err, Entry("NewFloat64FromJSON"))
             ELSE Ok(Float64(p.v), Entry("NewFloat64FromJSON"))

NewStringFromJSON(j) ==
    IF ToUint(Get(j, "type")) # TypeString
    THEN Fail(ErrInvalidJSON, Entry("NewStringFromJSON"))
    ELSE Ok(String(ToString(Get(j, "value"))), Entry("NewStringFromJSON"))

NewIDFromJSON(j) ==
    IF ToUint(Get(j, "type")) # TypeID
    THEN Fail(ErrInvalidJSON, Entry("NewIDFromJSON"))
    ELSE Ok(ID(ToString(Get(j, "value"))), Entry("NewIDFromJSON"))

\* the result of a call made on a child, the constructors it entered appended
\* to those the caller has entered so far
Attach(log, prefix, r) ==
    [val |-> r.val, err |-> r.err, panicked |-> r.panicked,
     log |-> log \o Under(prefix, r.log)]

\* if err != nil { return nil, err } after the call that gave r
Returned(r) == Propagate(r, r.log)

\* for i, json := range jsonDefinitions { ... } of NewModuleFromJSON; r is what
\* NewDefinitionFromJSON returned for element i
RECURSIVE DefinitionsLoop(_, _, _, _)
DefinitionsStep(jsons, i, acc, r) ==
    IF Failed(r) THEN Returned(r)
    ELSE DefinitionsLoop(jsons, i + 1, Append(acc, r.val), r.log)

DefinitionsLoop(jsons, i, acc, log) ==
    IF i > Len(jsons) THEN Ok(MakeSlice(acc), log)
    ELSE DefinitionsStep(jsons, i, acc,
                         Attach(log, <<"definitions", IndexName(i)>>,
                                NewDefinitionFromJSON(jsons[i])))

\* mutant of ParametersLoop: a parameter that fails to decode is skipped, its
\* entry left nil, instead of ending the decode
RECURSIVE ParametersLoopSkipping(_, _, _, _)
ParametersLoopSkipping(jsons, i, acc, log) ==
    IF i > Len(jsons) THEN Ok(MakeSlice(acc), log)
    ELSE LET r == NewIDFromJSON(jsons[i])
             log2 == log \o Under(<<"parameters", IndexName(i)>>, r.log)
         IN  ParametersLoopSkipping(jsons, i + 1, Append(acc, r.val), log2)

\* for i, json := range jsonParameters { ... } of NewLambdaFromJSON; r is what
\* NewIDFromJSON returned for element i
RECURSIVE ParametersLoop(_, _, _, _)
ParametersStep(jsons, i, acc, r) ==
    IF Failed(r) THEN Returned(r)
    ELSE ParametersLoop(jsons, i + 1, Append(acc, r.val), r.log)

ParametersLoop(jsons, i, acc, log) ==
    IF i > Len(jsons) THEN Ok(MakeSlice(acc), log)
    ELSE ParametersStep(jsons, i, acc,
                        Attach(log, <<"parameters", IndexName(i)>>,
                               NewIDFromJSON(jsons[i])))

\* for i, json := range jsonArguments { ... } of NewCallFromJSON and of
\* NewAnonymousCallFromJSON; r is what NewExpressionFromJSON returned for
\* element i
RECURSIVE ArgumentsLoop(_, _, _, _)
ArgumentsStep(jsons, i, acc, r) ==
    IF Failed(r) THEN Returned(r)
    ELSE ArgumentsLoop(jsons, i + 1, Append(acc, r.val), r.log)

ArgumentsLoop(jsons, i, acc, log) ==
    IF i > Len(jsons) THEN Ok(MakeSlice(acc), log)
    ELSE ArgumentsStep(jsons, i, acc,
                       Attach(log, <<"arguments", IndexName(i)>>,
                              NewExpressionFromJSON(jsons[i])))

\* NewModuleFromJSON from its return statement back to its tag check
ModuleReturn(name, definitions) ==
    IF Failed(definitions) THEN definitions
    ELSE Ok(Module(name, definitions.val), definitions.log)

ModuleDefinitions(name, jsonDefinitions) ==
    IF jsonDefinitions.panicked THEN Panic(Entry("NewModuleFromJSON"))
    ELSE ModuleReturn(name, DefinitionsLoop(jsonDefinitions.slice.elems, 1, <<>>,
                                            Entry("NewModuleFromJSON")))

NewModuleFromJSON(j) ==
    IF ToUint(Get(j, "type")) # TypeModule
    THEN Fail(ErrInvalidJSON, Entry("NewModuleFromJSON"))
    ELSE ModuleDefinitions(ToString(Get(j, "name")), ToVal(Get(j, "definitions")))

\* mutant of NewDefinitionFromJSON: a failure of the nested expression is
\* reported as ErrInvalidJSON instead of being returned as it is
NewDefinitionFromJSONReplacingError(j) ==
    IF ToUint(Get(j, "type")) # TypeDefinition
    THEN Fail(ErrInvalidJSON, Entry("NewDefinitionFromJSON"))
    ELSE LET id == NewIDFromJSON(Get(j, "id"))
             log1 == Entry("NewDefinitionFromJSON") \o Under(<<"id">>, id.log)
         IN  IF Failed(id) THEN Propagate(id, log1)
             ELSE LET expression == NewExpressionFromJSON(Get(j, "expression"))
                      log2 == log1 \o Under(<<"expression">>, expression.log)
                  IN  IF Failed(expression) THEN Fail(ErrInvalidJSON, log2)
                      ELSE Ok(Definition(id.val, expression.val), log2)

\* NewDefinitionFromJSON from its return statement back to its tag check
DefinitionReturn(id, expression) ==
    IF Failed(expression) THEN Returned(expression)
    ELSE Ok(Definition(id.val, expression.val), expression.log)

DefinitionExpression(j, id) ==
    IF Failed(id) THEN Returned(id)
    ELSE DefinitionReturn(id, Attach(id.log, <<"expression">>,
                                     NewExpressionFromJSON(Get(j, "expression"))))

NewDefinitionFromJSON(j) ==
    IF ToUint(Get(j, "type")) # TypeDefinition
    THEN Fail(ErrInvalidJSON, Entry("NewDefinitionFromJSON"))
    ELSE DefinitionExpression(j, Attach(Entry("NewDefinitionFromJSON"), <<"id">>,
                                        NewIDFromJSON(Get(j, "id"))))

\* NewLambdaFromJSON from its return statement back to its tag check
LambdaReturn(parameters, expression) ==
    IF Failed(expression) THEN Returned(expression)
    ELSE Ok(Lambda(parameters.val, expression.val), expression.log)

LambdaExpression(j, parameters) ==
    IF Failed(parameters) THEN parameters
    ELSE LambdaReturn(parameters, Attach(parameters.log, <<"expression">>,
                                         NewExpressionFromJSON(Get(j, "expression"))))

LambdaParameters(j, jsonParameters) ==
    IF jsonParameters.panicked THEN Panic(Entry("NewLambdaFromJSON"))
    ELSE LambdaExpression(j, ParametersLoop(jsonParameters.slice.elems, 1, <<>>,
                                            Entry("NewLambdaFromJSON")))

NewLambdaFromJSON(j) ==
    IF ToUint(Get(j, "type")) # TypeLambda
    THEN Fail(ErrInvalidJSON, Entry("NewLambdaFromJSON"))
    ELSE LambdaParameters(j, ToVal(Get(j, "parameters")))

\* mutant of NewCallFromJSON: the arguments are decoded before the id
NewCallFromJSONArgumentsFirst(j) ==
    IF ToUint(Get(j, "type")) # TypeCall
    THEN Fail(ErrInvalidJSON, Entry("NewCallFromJSON"))
    ELSE LET jsonArguments == ToVal(Get(j, "arguments"))
         IN  IF jsonArguments.panicked THEN Panic(Entry("NewCallFromJSON"))
             ELSE LET arguments == ArgumentsLoop(jsonArguments.slice.elems, 1, <<>>,
                                                 Entry("NewCallFromJSON"))
                  IN  IF Failed(arguments) THEN arguments
                      ELSE LET id == NewIDFromJSON(Get(j, "id"))
                               log2 == arguments.log \o Under(<<"id">>, id.log)
                           IN  IF Failed(id) THEN Propagate(id, log2)
                               ELSE Ok(Call(id.val, arguments.val), log2)

\* NewCallFromJSON from its return statement back to its tag check
CallReturn(id, arguments) ==
    IF Failed(arguments) THEN arguments
    ELSE Ok(Call(id.val, arguments.val), arguments.log)

CallArguments(id, jsonArguments) ==
    IF jsonArguments.panicked THEN Panic(id.log)
    ELSE CallReturn(id, ArgumentsLoop(jsonArguments.slice.elems, 1, <<>>, id.log))

CallID(j, id) ==
    IF Failed(id) THEN Returned(id)
    ELSE CallArguments(id, ToVal(Get(j, "arguments")))

NewCallFromJSON(j) ==
    IF ToUint(Get(j, "type")) # TypeCall
    THEN Fail(ErrInvalidJSON, Entry("NewCallFromJSON"))
    ELSE CallID(j, Attach(Entry("NewCallFromJSON"), <<"id">>,
                          NewIDFromJSON(Get(j, "id"))))

\* NewAnonymousCallFromJSON from its return statement back to its tag check
AnonymousCallReturn(lambda, arguments) ==
    IF Failed(arguments) THEN arguments
    ELSE Ok(AnonymousCall(lambda.val, arguments.val), arguments.log)

AnonymousCallArguments(lambda, jsonArguments) ==
    IF jsonArguments.panicked THEN Panic(lambda.log)
    ELSE AnonymousCallReturn(lambda, ArgumentsLoop(jsonArguments.slice.elems, 1, <<>>,
                                                   lambda.log))

AnonymousCallLambda(j, lambda) ==
    IF Failed(lambda) THEN Returned(lambda)
    ELSE AnonymousCallArguments(lambda, ToVal(Get(j, "arguments")))

NewAnonymousCallFromJSON(j) ==
    IF ToUint(Get(j, "type")) # TypeAnonymousCall
    THEN Fail(ErrInvalidJSON, Entry("NewAnonymousCallFromJSON"))
    ELSE AnonymousCallLambda(j, Attach(Entry("NewAnonymousCallFromJSON"), <<"lambda">>,
                                       NewLambdaFromJSON(Get(j, "lambda"))))

\* the switch of NewExpressionFromJSON on the tag read
Dispatch(j, t) ==
    CASE t = TypeModule -> AsExpression("Module", NewModuleFromJSON(j))
      [] t = TypeNil -> AsExpression("Nil", NewNilFromJSON(j))
      [] t = TypeBoolean -> AsExpression("Boolean", NewBooleanFromJSON(j))
      [] t = TypeInt32 -> AsExpression("Int32", NewInt32FromJSON(j))
      [] t = TypeFloat64 -> AsExpression("Float64", NewFloat64FromJSON(j))
      [] t = TypeString -> AsExpression("String", NewStringFromJSON(j))
      [] t = TypeID -> AsExpression("ID", NewIDFromJSON(j))
      [] t = TypeDefinition -> AsExpression("Definition", NewDefinitionFromJSON(j))
      [] t = TypeLambda -> AsExpression("Lambda", NewLambdaFromJSON(j))
      [] t = TypeCall -> AsExpression("Call", NewCallFromJSON(j))
      [] t = TypeAnonymousCall ->
            AsExpression("AnonymousCall", NewAnonymousCallFromJSON(j))
      [] OTHER -> [val |-> NilIface, err |-> ErrInvalidJSON, panicked |-> FALSE,
                   log |-> Entry("NewExpressionFromJSON")]

NewExpressionFromJSON(j) == Dispatch(j, ToUint(Get(j, "type")))

-----------------------------------------------------------------------------
(* Inputs: the trees a producer builds and the structured data a caller may  *)
(* hand to the decoder.                                                      *)

SeqsUpTo(S, n) == UNION {[1..k -> S] : k \in 0..n}

\* the slices a producer can build over S: nil, or made of up to MaxSeq elements
SlicesOf(S) == {NilSlice} \cup {MakeSlice(s) : s \in SeqsUpTo(S, MaxSeq)}

Names == {<<>>, <<"x">>, <<"t", "e", "s", "t">>}

Int32Values == {MinInt32, MinInt32 + 1, -42, -1, 0, 1, 23, MaxInt32 - 1, MaxInt32}

F64(neg, digits, exp) == [neg |-> neg, digits |-> digits, exp |-> exp]

Float64Values ==
    {F64(FALSE, <<"5", "8", "2">>, -7), F64(FALSE, <<"1", "2", "3", "4", "5", "6">>, -3),
     F64(FALSE, <<>>, 0), F64(TRUE, <<>>, 0), F64(TRUE, <<"1", "5">>, -1),
     F64(FALSE, <<"5">>, 2), F64(FALSE, <<"1">>, 0)}

IDs == {ID(<<"x">>), ID(<<"a">>)}

Leaves ==
    {Expr(Nil)} \cup {Expr(Boolean(b)) : b \in BOOLEAN}
      \cup {Expr(Int32(v)) : v \in Int32Values}
      \cup {Expr(Float64(v)) : v \in Float64Values}
      \cup {Expr(String(v)) : v \in Names \cup {<<"a", "'", "s">>}}
      \cup {Expr(ID(v)) : v \in Names}

Kids1 ==
    {Expr(Nil), Expr(Int32(-42)), Expr(Float64(F64(FALSE, <<"1", "2", "3", "4", "5", "6">>, -3))),
     Expr(String(<<"a", "'", "s">>)), Expr(ID(<<"x">>))}

Definitions1 == {Definition(i, x) : i \in IDs, x \in Kids1}

Lambdas1 == {Lambda(ps, x) : ps \in SlicesOf(IDs), x \in Kids1}

Calls1 == {Call(i, as) : i \in IDs, as \in SlicesOf(Kids1)}

Lambda1 == Lambda(MakeSlice(<<ID(<<"a">>)>>), Expr(ID(<<"a">>)))

Call1 == Call(ID(<<"t", "e", "s", "t">>), MakeSlice(<<Expr(Int32(MinInt32))>>))

Kids2 == {Expr(Int32(23)), Expr(Lambda1), Expr(Call1), Expr(Boolean(TRUE))}

Definitions2 == {Definition(i, x) : i \in IDs, x \in Kids2}

AnonymousCalls ==
    {AnonymousCall(l, as) :
        l \in {Lambda1, Lambda(NilSlice, Expr(Call1)),
               Lambda(MakeSlice(<<>>), Expr(Float64(F64(FALSE, <<"5", "8", "2">>, -7))))},
        as \in SlicesOf(Kids2)}

Modules ==
    {Module(n, ds) :
        n \in Names,
        ds \in SlicesOf({Definition(ID(<<"x">>), Expr(Int32(-42))),
                         Definition(ID(<<"a">>), Expr(Lambda1)),
                         Definition(ID(<<"x">>), Expr(Call1))})}

\* the well-formed trees of the model
Exprs ==
    Leaves \cup {Expr(n) : n \in Definitions1 \cup Definitions2 \cup Lambdas1
                                   \cup Calls1 \cup AnonymousCalls \cup Modules}

\* an object from a record of fields, the fields whose value is JInvalid left out
MkObj(f) == JObj([k \in {x \in DOMAIN f : f[x] # JInvalid} |-> f[k]])

Txt23 == <<"2", "3">>
TxtAbc == <<"a", "b", "c">>

\* what may stand in a "type" position
RawTags ==
    {JNum(FormatInt(n)) : n \in 0..12}
      \cup {JInvalid, JNull, JBool(TRUE), JBool(FALSE), JArr(<<>>), JArr(<<JNull>>),
            JObj(<<>>), JStr(<<>>), JStr(TxtAbc), JStr(<<"3">>), JStr(<<"+", "4">>),
            JStr(<<"7", "a">>), JNum(<<"-", "1">>)}

\* what may stand in a "value" or "name" position
RawValues ==
    {JInvalid, JNull, JBool(TRUE), JBool(FALSE), JNum(Txt23), JArr(<<>>),
     JStr(<<>>), JStr(Txt23), JStr(TxtAbc), JStr(<<"-", "4", "2">>),
     JStr(<<"+", "7">>), JStr(<<"1", "2", "a">>), JStr(<<"-">>),
     JStr(FormatInt(MaxInt32)), JStr(FormatInt(MinInt32)),
     JStr(<<"2", "1", "4", "7", "4", "8", "3", "6", "4", "8">>),
     JStr(<<"-", "2", "1", "4", "7", "4", "8", "3", "6", "4", "9">>),
     JStr(<<"4", "2", "9", "4", "9", "6", "7", "2", "9", "6">>),
     JStr(<<"9", "9", "9", "9", "9", "9", "9", "9", "9", "9", "9", "a">>),
     JStr(<<"0", ".", "0", "0", "0", "0", "5", "8", "2">>),
     JStr(<<"1", ".", "2", ".">>), JStr(<<"0">>)}

\* objects with a "type" and a "value", and inputs that are no object
RawScalars ==
    {MkObj([type |-> t, value |-> v]) : t \in RawTags, v \in RawValues}
      \cup {JInvalid, JNull, JBool(TRUE), JNum(<<"4">>), JStr(<<"4">>), JArr(<<>>)}

GoodID == IDJSON(ID(<<"x">>))
BadInt32 == MkObj([type |-> TypeEntry(TypeInt32), value |-> JStr(TxtAbc)])
BadFloat64 == MkObj([type |-> TypeEntry(TypeFloat64), value |-> JStr(<<"1", ".", "2", ".">>)])
BigInt32 ==
    MkObj([type |-> TypeEntry(TypeInt32),
           value |-> JStr(<<"2", "1", "4", "7", "4", "8", "3", "6", "4", "8">>)])
NoTag == MkObj([type |-> JNum(<<"0">>), value |-> JStr(Txt23)])

\* what may stand where an ID is expected
RawIDs ==
    {GoodID, IDJSON(ID(<<"a">>)),
     MkObj([type |-> TypeEntry(TypeString), value |-> JStr(<<"x">>)]),
     MkObj([type |-> JStr(<<"7">>), value |-> JStr(<<"x">>)]),
     JNull}

\* what may stand where an Expression is expected
RawKids ==
    {JSON(Expr(Nil)), JSON(Expr(Int32(23))), BadInt32, BadFloat64, NoTag, JNull,
     JSON(Expr(Call1)),
     MkObj([type |-> TypeEntry(TypeCall), id |-> GoodID, arguments |-> JArr(<<BigInt32>>)])}

\* what may stand in a sequence position, over the elements S
RawSeqs(S) ==
    {JInvalid, JNull, JObj(<<>>), JStr(TxtAbc)} \cup {JArr(s) : s \in SeqsUpTo(S, MaxSeq)}

\* the tag of a composite input: right, wrong, or the right digits as a string
TagChoices(t) == {TypeEntry(t), JNum(<<"0">>), JStr(FormatInt(t))}

RawDefinitions ==
    {MkObj([type |-> t, id |-> i, expression |-> x]) :
        t \in TagChoices(TypeDefinition) \cup {JInvalid, TypeEntry(TypeCall)},
        i \in RawIDs \cup {JInvalid}, x \in RawKids \cup {JInvalid}}

RawLambdas ==
    {MkObj([type |-> t, parameters |-> ps, expression |-> x]) :
        t \in TagChoices(TypeLambda), ps \in RawSeqs(RawIDs), x \in RawKids \cup {JInvalid}}

RawCalls ==
    {MkObj([type |-> t, id |-> i, arguments |-> as]) :
        t \in TagChoices(TypeCall), i \in {GoodID, JInvalid, JNull}, as \in RawSeqs(RawKids)}

LambdaBadBody ==
    MkObj([type |-> TypeEntry(TypeLambda), parameters |-> JArr(<<GoodID>>),
           expression |-> BadInt32])

RawAnonymousCalls ==
    {MkObj([type |-> t, lambda |-> l, arguments |-> as]) :
        t \in {TypeEntry(TypeAnonymousCall), JNum(<<"0">>)},
        l \in {JSON(Expr(Lambda1)), LambdaBadBody, JInvalid,
               MkObj([type |-> TypeEntry(TypeLambda), expression |-> GoodID]),
               MkObj([type |-> TypeEntry(TypeLambda), parameters |-> JArr(<<JNull>>),
                      expression |-> BadInt32]),
               JSON(Expr(Call1))},
        as \in RawSeqs(RawKids)}

DefinitionBadBody ==
    MkObj([type |-> TypeEntry(TypeDefinition), id |-> GoodID, expression |-> BadInt32])

RawModules ==
    {MkObj([type |-> t, name |-> n, definitions |-> ds]) :
        t \in TagChoices(TypeModule) \cup {JBool(TRUE)},
        n \in {JInvalid, JStr(<<"t", "e", "s", "t">>), JNum(Txt23)},
        ds \in RawSeqs({JSON(Expr(Definition(ID(<<"x">>), Expr(Int32(-42))))),
                        DefinitionBadBody,
                        MkObj([type |-> TypeEntry(TypeDefinition), expression |-> BadInt32]),
                        MkObj([type |-> TypeEntry(TypeDefinition), id |-> GoodID,
                               expression |-> LambdaBadBody]),
                        JSON(Expr(Int32(23))), JNull})}

\* the structured data a caller may hand to the decoder
RawInputs ==
    RawScalars \cup RawDefinitions \cup RawLambdas \cup RawCalls
      \cup RawAnonymousCalls \cup RawModules

-----------------------------------------------------------------------------
(* The state machine: a producer builds a tree and encodes it, or a caller   *)
(* receives structured data; either is then handed to one decode function.   *)

NoResult == [val |-> NilPtr, err |-> NoErr, panicked |-> FALSE, log |-> <<>>]

Init ==
    /\ \/ phase = "built" /\ e \in Exprs /\ json = JInvalid
       \/ phase = "received" /\ e = NilIface /\ json \in RawInputs
    /\ call = ""
    /\ result = NoResult

\* b, err := jsoniter.Marshal(e.JSON()); jsoniter.Get(b)
Encode ==
    /\ phase = "built"
    /\ json' = JSON(e)
    /\ phase' = "encoded"
    /\ UNCHANGED <<e, call, result>>

Decoded(fn, r) ==
    /\ phase \in {"encoded", "received"}
    /\ phase' = "decoded"
    /\ call' = fn
    /\ result' = r
    /\ UNCHANGED <<e, json>>

CallNewExpressionFromJSON == Decoded("NewExpressionFromJSON", NewExpressionFromJSON(json))
CallNewModuleFromJSON == Decoded("NewModuleFromJSON", NewModuleFromJSON(json))
CallNewNilFromJSON == Decoded("NewNilFromJSON", NewNilFromJSON(json))
CallNewBooleanFromJSON == Decoded("NewBooleanFromJSON", NewBooleanFromJSON(json))
CallNewInt32FromJSON == Decoded("NewInt32FromJSON", NewInt32FromJSON(json))
CallNewFloat64FromJSON == Decoded("NewFloat64FromJSON", NewFloat64FromJSON(json))
CallNewStringFromJSON == Decoded("NewStringFromJSON", NewStringFromJSON(json))
CallNewIDFromJSON == Decoded("NewIDFromJSON", NewIDFromJSON(json))
CallNewDefinitionFromJSON == Decoded("NewDefinitionFromJSON", NewDefinitionFromJSON(json))
CallNewLambdaFromJSON == Decoded("NewLambdaFromJSON", NewLambdaFromJSON(json))
CallNewCallFromJSON == Decoded("NewCallFromJSON", NewCallFromJSON(json))
CallNewAnonymousCallFromJSON ==
    Decoded("NewAnonymousCallFromJSON", NewAnonymousCallFromJSON(json))

Next ==
    \/ Encode
    \/ CallNewExpressionFromJSON
    \/ CallNewModuleFromJSON
    \/ CallNewNilFromJSON
    \/ CallNewBooleanFromJSON
    \/ CallNewInt32FromJSON
    \/ CallNewFloat64FromJSON
    \/ CallNewStringFromJSON
    \/ CallNewIDFromJSON
    \/ CallNewDefinitionFromJSON
    \/ CallNewLambdaFromJSON
    \/ CallNewCallFromJSON
    \/ CallNewAnonymousCallFromJSON

Spec == Init /\ [][Next]_vars

-----------------------------------------------------------------------------
(* Vocabulary of the properties. *)

\* the tag the decoder reads from an input's "type" field
TagOf(j) == ToUint(Get(j, "type"))

\* the tag a per-variant constructor accepts
OwnTag(fn) ==
    CASE fn = "NewModuleFromJSON" -> TypeModule
      [] fn = "NewNilFromJSON" -> TypeNil
      [] fn = "NewBooleanFromJSON" -> TypeBoolean
      [] fn = "NewInt32FromJSON" -> TypeInt32
      [] fn = "NewFloat64FromJSON" -> TypeFloat64
      [] fn = "NewStringFromJSON" -> TypeString
      [] fn = "NewIDFromJSON" -> TypeID
      [] fn = "NewDefinitionFromJSON" -> TypeDefinition
      [] fn = "NewLambdaFromJSON" -> TypeLambda
      [] fn = "NewCallFromJSON" -> TypeCall
      [] fn = "NewAnonymousCallFromJSON" -> TypeAnonymousCall
      [] OTHER -> 0

\* a tree with every nil slice replaced by an empty one: equality of content
RECURSIVE Content(_)
ContentSeq(s) == MakeSlice([i \in 1..Len(s.elems) |-> Content(s.elems[i])])
Content(x) ==
    IF "dyn" \in DOMAIN x THEN Iface(x.dyn, Content(x.ptr))
    ELSE IF "nil" \in DOMAIN x THEN x
    ELSE CASE x.node = "Module" -> Module(x.Name, ContentSeq(x.Definitions))
           [] x.node = "Definition" -> Definition(Content(x.ID), Content(x.Expression))
           [] x.node = "Lambda" -> Lambda(ContentSeq(x.Parameters), Content(x.Expression))
           [] x.node = "Call" -> Call(Content(x.ID), ContentSeq(x.Arguments))
           [] x.node = "AnonymousCall" ->
                 AnonymousCall(Content(x.Lambda), ContentSeq(x.Arguments))
           [] OTHER -> x

\* the canonical fields of the wire layout, by tag
CanonicalFields(t) ==
    CASE t = TypeModule -> {"type", "name", "definitions"}
      [] t = TypeNil -> {"type"}
      [] t \in {TypeBoolean, TypeInt32, TypeFloat64, TypeString, TypeID} -> {"type", "value"}
      [] t = TypeDefinition -> {"type", "id", "expression"}
      [] t = TypeLambda -> {"type", "parameters", "expression"}
      [] t = TypeCall -> {"type", "id", "arguments"}
      [] t = TypeAnonymousCall -> {"type", "lambda", "arguments"}

-----------------------------------------------------------------------------
(* The claims. *)

\* C1: round-trip identity.  Decoding the encoding of a well-formed tree with
\* NewExpressionFromJSON returns no error and a value of the same variant,
\* with the same Type() and the same content, field for field.
C1_RoundTripIdentity ==
    (phase = "decoded" /\ e # NilIface /\ call = "NewExpressionFromJSON") =>
        /\ result.err = NoErr
        /\ ~result.panicked
        /\ result.val.dyn = e.dyn
        /\ Type(result.val) = Type(e)
        /\ Content(result.val) = Content(e)

\* a "type" entry that is absent, no number, or a number outside 1..11
InvalidTag(t) == t.k # "num" \/ t.raw \notin {FormatInt(n) : n \in 1..11}

\* C2: unknown tag rejection.  When the "type" field is absent, is no number,
\* or is a number outside 1..11, NewExpressionFromJSON returns ErrInvalidJSON,
\* selects no variant constructor and returns no node.
C2_UnknownTagRejected ==
    (phase = "decoded" /\ call = "NewExpressionFromJSON"
        /\ InvalidTag(Get(json, "type"))) =>
        /\ result.err = ErrInvalidJSON
        /\ result.val = NilIface
        /\ result.log = Entry("NewExpressionFromJSON")

\* C4: canonical wire layout.  JSON() of every variant is a mapping with
\* "type" equal to the variant's tag and exactly the variant's canonical
\* fields; the encoding of a Module carries its name as a string.
C4_CanonicalLayout ==
    phase = "encoded" =>
        /\ json.k = "obj"
        /\ DOMAIN json.o = CanonicalFields(Type(e))
        /\ json.o.type = JNum(FormatInt(Type(e)))
        /\ e.dyn = "Module" => json.o.name = JStr(e.ptr.Name)

\* C9: no partial result.  A decode call that returns gives either a non-nil
\* value and no error, or an error and a value that compares equal to nil; for
\* NewExpressionFromJSON the value is then the nil interface, not an interface
\* holding a nil pointer.
C9_NoPartialResult ==
    (phase = "decoded" /\ ~result.panicked) =>
        IF call = "NewExpressionFromJSON"
        THEN \/ result.err = NoErr /\ result.val # NilIface /\ result.val.ptr # NilPtr
             \/ result.err # NoErr /\ result.val = NilIface
        ELSE \/ result.err = NoErr /\ result.val # NilPtr
             \/ result.err # NoErr /\ result.val = NilPtr

RECURSIVE At(_, _)
At(j, path) ==
    IF path = <<>> THEN j
    ELSE IF j.k = "arr" THEN At(j.a[DigitVal(path[1])], Tail2(path))
    ELSE At(Get(j, path[1]), Tail2(path))

\* the call returned a value that holds no node
HoldsNoNode(val) == val = NilPtr \/ ("dyn" \in DOMAIN val /\ val.ptr = NilPtr)

\* the constructor at which the call stopped, and the node it was given
LastEntry == result.log[Len(result.log)]
LastNode == At(json, LastEntry.path)
LastText == ToString(Get(LastNode, "value"))

IsDecimal(s) ==
    LET body == IF s # <<>> /\ s[1] \in {"+", "-"} THEN Tail2(s) ELSE s
    IN  body # <<>> /\ \A i \in 1..Len(body) : IsDigit(body[i])

\* a <= b for digit texts of equal length
RECURSIVE DigitsLeq(_, _)
DigitsLeq(a, b) ==
    IF a = <<>> THEN TRUE
    ELSE IF a[1] # b[1] THEN DigitVal(a[1]) < DigitVal(b[1])
    ELSE DigitsLeq(Tail2(a), Tail2(b))

Magnitude(s) == StripLeadingZeros(IF s[1] \in {"+", "-"} THEN Tail2(s) ELSE s)

\* the text denotes an integer of [-2147483648, 2147483647]
DenotesInt32(s) ==
    /\ IsDecimal(s)
    /\ LET m == Magnitude(s)
           limit == IF s[1] = "-"
                    THEN <<"2", "1", "4", "7", "4", "8", "3", "6", "4", "8">>
                    ELSE <<"2", "1", "4", "7", "4", "8", "3", "6", "4", "7">>
       IN  Len(m) < 10 \/ (Len(m) = 10 /\ DigitsLeq(m, limit))

\* the canonical decimal text of the integer a text denotes
Canonical(s) ==
    LET m == Magnitude(s)
    IN  IF m = <<>> THEN <<"0">> ELSE IF s[1] = "-" THEN <<"-">> \o m ELSE m

\* C7: Int32 fidelity and range.  Decoding the encoding of Int32{v} yields v
\* for every v, the ends of the range included; NewInt32FromJSON, the tag
\* right, returns the integer the value text denotes when it denotes one of
\* the range, and otherwise (empty or absent, not a number, out of range) a
\* parse error and no value.
C7_Int32Fidelity ==
    /\ (phase = "decoded" /\ e.dyn = "Int32"
          /\ call \in {"NewInt32FromJSON", "NewExpressionFromJSON"}) =>
            /\ result.err = NoErr
            /\ (IF call = "NewInt32FromJSON" THEN result.val ELSE result.val.ptr)
                 = Int32(e.ptr.Value)
    /\ (phase = "decoded" /\ call = "NewInt32FromJSON" /\ TagOf(json) = TypeInt32) =>
            LET text == ToString(Get(json, "value"))
            IN  IF DenotesInt32(text)
                THEN /\ result.err = NoErr
                     /\ result.val.node = "Int32"
                     /\ result.val.Value \in MinInt32..MaxInt32
                     /\ FormatInt(result.val.Value) = Canonical(text)
                ELSE /\ result.err.err = "NumError"
                     /\ result.err.Func = "ParseInt"
                     /\ result.err.Num = text
                     /\ result.val = NilPtr

\* NewInt32FromJSON refused "2147483648", one past the largest int32
C7_Witness ==
    /\ phase = "decoded"
    /\ call = "NewInt32FromJSON"
    /\ TagOf(json) = TypeInt32
    /\ Get(json, "value") = JStr(<<"2", "1", "4", "7", "4", "8", "3", "6", "4", "8">>)
    /\ result.err = NumError("ParseInt", <<"2", "1", "4", "7", "4", "8", "3", "6", "4", "8">>,
                             "ErrRange")
    /\ result.val = NilPtr

\* the constructor NewExpressionFromJSON selects for a tag
CtorOfTag(t) ==
    CASE t = TypeModule -> "NewModuleFromJSON"
      [] t = TypeNil -> "NewNilFromJSON"
      [] t = TypeBoolean -> "NewBooleanFromJSON"
      [] t = TypeInt32 -> "NewInt32FromJSON"
      [] t = TypeFloat64 -> "NewFloat64FromJSON"
      [] t = TypeString -> "NewStringFromJSON"
      [] t = TypeID -> "NewIDFromJSON"
      [] t = TypeDefinition -> "NewDefinitionFromJSON"
      [] t = TypeLambda -> "NewLambdaFromJSON"
      [] t = TypeCall -> "NewCallFromJSON"
      [] t = TypeAnonymousCall -> "NewAnonymousCallFromJSON"
      [] OTHER -> "none"

\* the variant a per-variant constructor builds
ResultNodeKind(fn) ==
    CASE fn = "NewModuleFromJSON" -> "Module"
      [] fn = "NewLambdaFromJSON" -> "Lambda"
      [] fn = "NewCallFromJSON" -> "Call"
      [] fn = "NewAnonymousCallFromJSON" -> "AnonymousCall"
      [] OTHER -> "none"

\* the per-variant constructor at work in the call made
Ctor == IF call = "NewExpressionFromJSON" THEN CtorOfTag(TagOf(json)) ELSE call

\* the node the call returned (the pointer inside the interface value)
ResultNode == IF call = "NewExpressionFromJSON" THEN result.val.ptr ELSE result.val

Composite ==
    {"NewModuleFromJSON", "NewDefinitionFromJSON", "NewLambdaFromJSON",
     "NewCallFromJSON", "NewAnonymousCallFromJSON"}

\* the elements of an input's sequence field (none when it is no array)
Elements(j, field) == IF Get(j, field).k = "arr" THEN Get(j, field).a ELSE <<>>

Child(path, j, want) == [path |-> path, j |-> j, want |-> want]

Entries(j, field, want) ==
    [i \in 1..Len(Elements(j, field)) |->
        Child(<<field, IndexName(i)>>, Elements(j, field)[i], want)]

\* the children of a composite input in the traversal order of the claims:
\* where each stands, and the constructor it is to be decoded with
Children(fn, j) ==
    CASE fn = "NewDefinitionFromJSON" ->
            <<Child(<<"id">>, Get(j, "id"), "NewIDFromJSON"),
              Child(<<"expression">>, Get(j, "expression"), "NewExpressionFromJSON")>>
      [] fn = "NewLambdaFromJSON" ->
            Entries(j, "parameters", "NewIDFromJSON")
              \o <<Child(<<"expression">>, Get(j, "expression"), "NewExpressionFromJSON")>>
      [] fn = "NewCallFromJSON" ->
            <<Child(<<"id">>, Get(j, "id"), "NewIDFromJSON")>>
              \o Entries(j, "arguments", "NewExpressionFromJSON")
      [] fn = "NewAnonymousCallFromJSON" ->
            <<Child(<<"lambda">>, Get(j, "lambda"), "NewLambdaFromJSON")>>
              \o Entries(j, "arguments", "NewExpressionFromJSON")
      [] fn = "NewModuleFromJSON" -> Entries(j, "definitions", "NewDefinitionFromJSON")
      [] OTHER -> <<>>

\* a child decoded on its own
DecodeChild(c) ==
    CASE c.want = "NewIDFromJSON" -> NewIDFromJSON(c.j)
      [] c.want = "NewDefinitionFromJSON" -> NewDefinitionFromJSON(c.j)
      [] c.want = "NewLambdaFromJSON" -> NewLambdaFromJSON(c.j)
      [] c.want = "NewExpressionFromJSON" -> NewExpressionFromJSON(c.j)

\* the children that fail to decode, by position
FailingChildren(cs) == {k \in 1..Len(cs) : Failed(DecodeChild(cs[k]))}

Min(S) == CHOOSE k \in S : \A m \in S : k <= m

IsPrefix(p, q) == Len(p) <= Len(q) /\ SubSeq(q, 1, Len(p)) = p

\* the encoding of the element of a sequence field, by the variant of the owner
ElementJSON(dyn, x) ==
    CASE dyn = "Module" -> DefinitionJSON(x)
      [] dyn = "Lambda" -> IDJSON(x)
      [] OTHER -> JSON(x)

SeqFieldName(dyn) ==
    CASE dyn = "Module" -> "definitions"
      [] dyn = "Lambda" -> "parameters"
      [] OTHER -> "arguments"

\* the sequence field of a node
SeqFieldOf(n) ==
    CASE n.node = "Module" -> n.Definitions
      [] n.node = "Lambda" -> n.Parameters
      [] OTHER -> n.Arguments

WithSequence == {"Module", "Lambda", "Call", "AnonymousCall"}

SequenceCtors ==
    {"NewModuleFromJSON", "NewLambdaFromJSON", "NewCallFromJSON", "NewAnonymousCallFromJSON"}

\* the element of a sequence field decoded on its own, by the owner's constructor
DecodeElement(fn, j) ==
    CASE fn = "NewModuleFromJSON" -> NewDefinitionFromJSON(j).val
      [] fn = "NewLambdaFromJSON" -> NewIDFromJSON(j).val
      [] OTHER -> NewExpressionFromJSON(j).val

\* C6: sequence preservation.  Encoding emits each sequence field as an array
\* of the same length, element i the encoding of element i, a nil or empty
\* sequence as an empty array; a successful decode yields a non-nil sequence of
\* the length of the input array, element i decoded from input element i; an
\* absent field or an empty array decodes to a non-nil sequence of length zero.
C6_SequencePreservation ==
    /\ (phase = "encoded" /\ e.dyn \in WithSequence) =>
            LET field == Get(json, SeqFieldName(e.dyn))
                elems == SeqFieldOf(e.ptr).elems
            IN  /\ field.k = "arr"
                /\ Len(field.a) = Len(elems)
                /\ \A i \in 1..Len(elems) : field.a[i] = ElementJSON(e.dyn, elems[i])
    /\ (phase = "decoded" /\ Ctor \in SequenceCtors
          /\ Get(json, "type") = TypeEntry(OwnTag(Ctor))
          /\ Get(json, SeqFieldName(ResultNodeKind(Ctor))).k \in {"arr", "invalid"}) =>
            LET input == Elements(json, SeqFieldName(ResultNodeKind(Ctor)))
            IN  /\ result.err = NoErr =>
                     LET slice == SeqFieldOf(ResultNode)
                     IN  /\ ~slice.null
                         /\ Len(slice.elems) = Len(input)
                         /\ \A i \in 1..Len(input) :
                                slice.elems[i] = DecodeElement(Ctor, input[i])
                /\ (input = <<>> /\ FailingChildren(Children(Ctor, json)) = {}) =>
                        result.err = NoErr

\* the variant a per-variant constructor builds, scalar ones included
ResultNodeOf(fn) ==
    CASE fn = "NewNilFromJSON" -> "Nil"
      [] fn = "NewBooleanFromJSON" -> "Boolean"
      [] fn = "NewInt32FromJSON" -> "Int32"
      [] fn = "NewFloat64FromJSON" -> "Float64"
      [] fn = "NewStringFromJSON" -> "String"
      [] fn = "NewIDFromJSON" -> "ID"
      [] fn = "NewDefinitionFromJSON" -> "Definition"
      [] OTHER -> ResultNodeKind(fn)

\* a decoded tree in which no pointer and no interface value is nil and every
\* typed child is a node of its type
RECURSIVE WellFormedNode(_)
IsNode(x, kind) == x # NilPtr /\ x.node = kind /\ WellFormedNode(x)
IsExpression(x) ==
    x # NilIface /\ x.ptr # NilPtr /\ x.ptr.node = x.dyn /\ WellFormedNode(x.ptr)
AllArguments(s) == \A i \in 1..Len(s.elems) : IsExpression(s.elems[i])
WellFormedNode(n) ==
    CASE n.node = "Module" ->
            \A i \in 1..Len(n.Definitions.elems) : IsNode(n.Definitions.elems[i], "Definition")
      [] n.node = "Definition" -> IsNode(n.ID, "ID") /\ IsExpression(n.Expression)
      [] n.node = "Lambda" ->
            /\ \A i \in 1..Len(n.Parameters.elems) : IsNode(n.Parameters.elems[i], "ID")
            /\ IsExpression(n.Expression)
      [] n.node = "Call" -> IsNode(n.ID, "ID") /\ AllArguments(n.Arguments)
      [] n.node = "AnonymousCall" -> IsNode(n.Lambda, "Lambda") /\ AllArguments(n.Arguments)
      [] OTHER -> TRUE

\* a child that is missing, or that carries another tag than the one required
\* where it stands (the tag being what the decoder reads from its "type")
MissingOrMistagged(c) ==
    \/ c.j.k \in {"invalid", "null"}
    \/ c.want # "NewExpressionFromJSON" /\ TagOf(c.j) # OwnTag(c.want)

C10_FirstErrorOrdering ==
    (phase = "decoded" /\ ~result.panicked /\ Ctor \in Composite) =>
        IF TagOf(json) # OwnTag(Ctor)
        THEN /\ result.err = ErrInvalidJSON
             /\ \A i \in 1..Len(result.log) : result.log[i].path = <<>>
        ELSE LET cs == Children(Ctor, json)
                 failing == FailingChildren(cs)
             IN  IF failing = {} THEN result.err = NoErr
                 ELSE LET k == Min(failing)
                      IN  /\ result.err = DecodeChild(cs[k]).err
                          /\ \A m \in 1..k : \E i \in 1..Len(result.log) :
                                result.log[i].path = cs[m].path
                          /\ \A m \in (k + 1)..Len(cs) : \A i \in 1..Len(result.log) :
                                ~IsPrefix(cs[m].path, result.log[i].path)

\* NewCallFromJSON, given a missing id and an argument that does not parse,
\* returned the id's ErrInvalidJSON and decoded no argument
C10_Witness ==
    /\ phase = "decoded"
    /\ call = "NewCallFromJSON"
    /\ TagOf(json) = TypeCall
    /\ Get(json, "id") = JNull
    /\ Elements(json, "arguments") = <<BadInt32>>
    /\ result.err = ErrInvalidJSON
    /\ \A i \in 1..Len(result.log) : ~IsPrefix(<<"arguments">>, result.log[i].path)

====
